---- MODULE Spec2Model ----
(***************************************************************************)
(* Model of app.py of salary-check: the three tables (job_titles,          *)
(* experience_bands, salary_bands), the two seeding commands, the list     *)
(* views, the create-salary-band view and the login gate.                  *)
(*                                                                         *)
(* Texts are sequences of one-character strings (<<"a","b">> is "ab"), so  *)
(* that strip, lower, LIKE matching, int() and float() are computed.       *)
(* A Python value that may be None is a set: {} is None, {v} is v.         *)
(***************************************************************************)
EXTENDS Integers, Sequences, FiniteSets, TLC

VARIABLES engine, job_titles, experience_bands, salary_bands, session, last

vars == <<engine, job_titles, experience_bands, salary_bands, session, last>>

(***************************************************************************)
(* Bounds of the model                                                     *)
(***************************************************************************)
\* rows in one seeding source
MaxRows == 2
\* rows the salary_bands table may hold
MaxBands == 2

(***************************************************************************)
(* Python values                                                           *)
(***************************************************************************)
None == {}
Some(v) == {v}
Val(o) == CHOOSE v \in o : TRUE
\* `o or ""` for an optional text
or_empty(o) == IF o = None THEN <<>> ELSE Val(o)
\* `o or None` for an optional text: the empty text is falsy
or_none(o) == IF o = None \/ o = Some(<<>>) THEN None ELSE o
\* `not o` for an optional text
falsy(o) == o = None \/ o = Some(<<>>)

\* str.strip(): whitespace of the model's alphabet is the blank
WS == {" "}
RECURSIVE lstrip(_)
lstrip(s) == IF s # <<>> /\ Head(s) \in WS THEN lstrip(Tail(s)) ELSE s
RECURSIVE rstrip(_)
rstrip(s) == IF s # <<>> /\ s[Len(s)] \in WS THEN rstrip(SubSeq(s, 1, Len(s) - 1)) ELSE s
strip(s) == rstrip(lstrip(s))

\* code points, for the storage engine's binary ordering of texts
Code(c) ==
  CASE c = " " -> 32 [] c = "%" -> 37 [] c = "+" -> 43 [] c = "-" -> 45 [] c = "." -> 46
    [] c = "0" -> 48 [] c = "1" -> 49 [] c = "2" -> 50 [] c = "3" -> 51 [] c = "4" -> 52
    [] c = "5" -> 53 [] c = "6" -> 54 [] c = "7" -> 55 [] c = "8" -> 56 [] c = "9" -> 57
    [] c = "A" -> 65 [] c = "B" -> 66 [] c = "_" -> 95 [] c = "a" -> 97 [] c = "b" -> 98
    [] c = "x" -> 120 [] c = "y" -> 121

RECURSIVE text_less(_, _)
text_less(s, t) ==
  IF t = <<>> THEN FALSE
  ELSE IF s = <<>> THEN TRUE
  ELSE IF Head(s) = Head(t) THEN text_less(Tail(s), Tail(t))
  ELSE Code(Head(s)) < Code(Head(t))
text_leq(s, t) == s = t \/ text_less(s, t)

\* lower(), as the engine applies it for ILIKE
lower_char(c) == CASE c = "A" -> "a" [] c = "B" -> "b" [] OTHER -> c
lower(s) == [i \in 1..Len(s) |-> lower_char(s[i])]

\* SQL LIKE: % matches any run of characters, _ matches any one character
RECURSIVE like(_, _)
like(s, p) ==
  IF p = <<>> THEN s = <<>>
  ELSE IF Head(p) = "%" THEN like(s, Tail(p)) \/ (s # <<>> /\ like(Tail(s), p))
  ELSE IF s = <<>> THEN FALSE
  ELSE (Head(p) = "_" \/ Head(p) = Head(s)) /\ like(Tail(s), Tail(p))
ilike(s, p) == like(lower(s), lower(p))

(***************************************************************************)
(* int() and float() of a text                                             *)
(***************************************************************************)
Digits == <<"0", "1", "2", "3", "4", "5", "6", "7", "8", "9">>
is_digit(c) == \E i \in 1..10 : Digits[i] = c
digit_val(c) == (CHOOSE i \in 1..10 : Digits[i] = c) - 1

\* a digit part: digits, single underscores allowed between digits
digit_part(s) ==
  /\ s # <<>>
  /\ is_digit(s[1]) /\ is_digit(s[Len(s)])
  /\ \A i \in 1..Len(s) : is_digit(s[i]) \/ s[i] = "_"
  /\ \A i \in 1..(Len(s) - 1) : ~(s[i] = "_" /\ s[i + 1] = "_")

RECURSIVE digits_value(_, _)
digits_value(s, acc) ==
  IF s = <<>> THEN acc
  ELSE IF Head(s) = "_" THEN digits_value(Tail(s), acc)
  ELSE digits_value(Tail(s), 10 * acc + digit_val(Head(s)))

signed(s) == s # <<>> /\ Head(s) \in {"+", "-"}
unsigned(s) == IF signed(s) THEN Tail(s) ELSE s
sign_of(s) == IF s # <<>> /\ Head(s) = "-" THEN -1 ELSE 1

\* int(text): None stands for ValueError
py_int(t) ==
  LET s == strip(t) IN
  IF digit_part(unsigned(s)) THEN Some(sign_of(s) * digits_value(unsigned(s), 0)) ELSE None

dot_at(s) == IF \E i \in 1..Len(s) : s[i] = "." THEN CHOOSE i \in 1..Len(s) : s[i] = "." /\ \A j \in 1..(i - 1) : s[j] # "." ELSE 0
only_digits(s) == SelectSeq(s, is_digit)

\* float(text) as a Numeric(12, 2) column keeps it, in hundredths; None stands
\* for ValueError.  The alphabet of the model has no exponent, "inf" or "nan";
\* fraction digits beyond the second are dropped.
py_float(t) ==
  LET s == unsigned(strip(t))
      d == dot_at(s)
      ip == IF d = 0 THEN s ELSE SubSeq(s, 1, d - 1)
      fp == IF d = 0 THEN <<>> ELSE SubSeq(s, d + 1, Len(s))
      f2 == SubSeq(only_digits(fp) \o <<"0", "0">>, 1, 2)
      ok == /\ (ip # <<>> \/ fp # <<>>)
            /\ (ip = <<>> \/ digit_part(ip))
            /\ (fp = <<>> \/ digit_part(fp))
  IN IF ok
     THEN Some(sign_of(strip(t)) * (digits_value(ip, 0) * 100 + digits_value(f2, 0)))
     ELSE None

(***************************************************************************)
(* Rows of a tabular source (csv.DictReader): a row maps field names to    *)
(* texts; a field of a short row is None, a column the header lacks is     *)
(* missing from the row.                                                   *)
(***************************************************************************)
\* row.get(k)
get(row, k) == IF k \in DOMAIN row THEN row[k] ELSE None
\* the error of row[k].strip(), "" when there is none
index_strip_error(row, k) ==
  IF k \notin DOMAIN row THEN "KeyError"
  ELSE IF row[k] = None THEN "AttributeError"
  ELSE ""
\* (x or "").strip() or None
strip_or_none(o) == or_none(Some(strip(or_empty(o))))

EBRows == {
  [experience_band_code |-> Some(<<" ", "a", " ">>), label |-> Some(<<" ", "x">>),
   min_years |-> Some(<<"1">>), max_years |-> Some(<<" ", "2">>),
   default_seniority_level |-> Some(<<" ">>), description |-> None],
  [experience_band_code |-> Some(<<"a">>), label |-> None,
   min_years |-> Some(<<"x">>), max_years |-> Some(<<>>),
   default_seniority_level |-> Some(<<"y">>), description |-> Some(<<"x">>)],
  [experience_band_code |-> Some(<<" ">>), label |-> Some(<<"x">>)],
  [experience_band_code |-> Some(<<>>), label |-> Some(<<"x">>)],
  [label |-> Some(<<"y">>)] }

JTRows == {
  [canonical_title |-> Some(<<" ", "a", "b">>), category |-> Some(<<"y">>),
   seniority_level |-> Some(<<" ", "y", " ">>), aliases |-> Some(<<" ">>)],
  [canonical_title |-> Some(<<"A", "_">>), category |-> Some(<<"x">>),
   seniority_level |-> Some(<<"x">>), aliases |-> Some(<<"a">>)],
  [canonical_title |-> Some(<<" ">>), category |-> None, seniority_level |-> None],
  [canonical_title |-> Some(<<>>), category |-> Some(<<"x">>), seniority_level |-> Some(<<"x">>)],
  [canonical_title |-> None, category |-> None, seniority_level |-> None] }

\* sequences of at most n elements of S
SeqUpTo(S, n) == UNION {[1..k -> S] : k \in 0..n}

\* a source file: absent, or a sequence of rows
NoFile == [exists |-> FALSE, rows |-> <<>>]
File(rows) == [exists |-> TRUE, rows |-> rows]
EBFiles == {NoFile} \cup {File(r) : r \in SeqUpTo(EBRows, MaxRows)}
JTFiles == {NoFile} \cup {File(r) : r \in SeqUpTo(JTRows, MaxRows)}
\* the sources the whole program is seeded from: one well-formed file each
EBSample == File(<<[experience_band_code |-> Some(<<"a">>), label |-> Some(<<"x">>),
                    min_years |-> Some(<<"1">>), max_years |-> Some(<<"2">>)],
                   [experience_band_code |-> Some(<<"b">>), label |-> Some(<<"y">>)]>>)
JTSample == File(<<[canonical_title |-> Some(<<"a", "b">>), category |-> Some(<<"y">>),
                    seniority_level |-> Some(<<"x">>)],
                   [canonical_title |-> Some(<<"A", "_">>), category |-> Some(<<"x">>),
                    seniority_level |-> Some(<<"x">>)]>>)

(***************************************************************************)
(* Storage                                                                 *)
(***************************************************************************)
\* DATABASE_URL selects the engine; SQLite is the default
Engines == {"sqlite", "postgresql"}
\* SQLite leaves FOREIGN KEY clauses unenforced unless the connection turns
\* them on, which the program never does
foreign_keys_enforced(e) == e = "postgresql"

\* the next value of an autoincrementing integer primary key
next_id(tbl) == IF tbl = {} THEN 1 ELSE 1 + (CHOOSE m \in {r.id : r \in tbl} : \A r \in tbl : r.id <= m)

Init ==
  /\ engine = "sqlite"
  /\ job_titles = {}
  /\ experience_bands = {}
  /\ salary_bands = {}
  /\ session = [user |-> None]
  /\ last = [op |-> "init"]

(***************************************************************************)
(* seed-experience-bands                                                   *)
(***************************************************************************)
to_int(o) ==
  LET val == strip(or_empty(o)) IN
  IF val = <<>> THEN None ELSE py_int(val)

\* ExperienceBand.query.get(code): the query autoflushes, so it sees the
\* rows this run has added
eb_existing(tbl, code) == {b \in tbl : b.code = code}

\* the INSERT of a flushed ExperienceBand; code is the primary key
eb_insert(acc, band) ==
  IF \E b \in acc.tbl : b.code = band.code
  THEN [acc EXCEPT !.err = "IntegrityError"]
  ELSE [acc EXCEPT !.tbl = acc.tbl \cup {band}]

\* one pass of the loop body over a row
seed_eb_row(acc, row) ==
  LET code == strip(or_empty(get(row, "experience_band_code"))) IN
  IF code = <<>> THEN acc
  ELSE IF eb_existing(acc.tbl, code) # {} THEN acc
  ELSE LET band == [code |-> code,
                    label |-> strip(or_empty(get(row, "label"))),
                    min_years |-> to_int(get(row, "min_years")),
                    max_years |-> to_int(get(row, "max_years")),
                    default_seniority_level |-> strip_or_none(get(row, "default_seniority_level")),
                    description |-> strip_or_none(get(row, "description"))]
           added == eb_insert(acc, band)
       IN IF added.err # "" THEN added ELSE [added EXCEPT !.count = acc.count + 1]

RECURSIVE seed_eb_loop(_, _, _)
seed_eb_loop(rows, i, acc) ==
  IF i > Len(rows) \/ acc.err # "" THEN acc
  ELSE seed_eb_loop(rows, i + 1, seed_eb_row(acc, rows[i]))

\* the record of a finished seeding run
seed_record(op, file, before, r) ==
  [op |-> op, file |-> file, before |-> before,
   rerun |-> (last.op = op /\ last.file = file),
   outcome |-> IF ~file.exists THEN "not_found" ELSE IF r.err = "" THEN "ok" ELSE r.err,
   count |-> r.count,
   report |-> IF file.exists /\ r.err = "" THEN Some(r.count) ELSE None]

\* a commit after every row: what an interrupted run added stays
seed_commit_each_row(file, before, r) == IF file.exists THEN r.tbl ELSE before

\* what the run leaves in the table: the commit after the loop, or nothing
seed_commit(file, before, r) == IF file.exists /\ r.err = "" THEN r.tbl ELSE before

seed_experience_bands(file) ==
  LET r == seed_eb_loop(file.rows, 1, [tbl |-> experience_bands, count |-> 0, err |-> ""]) IN
  /\ experience_bands' = seed_commit(file, experience_bands, r)
  /\ last' = seed_record("seed_experience_bands", file, experience_bands, r)
  /\ UNCHANGED <<engine, job_titles, salary_bands, session>>

(***************************************************************************)
(* seed-job-titles                                                         *)
(***************************************************************************)
\* JobTitle.query.filter_by(canonical_title=...).first(), autoflushed
jt_existing(tbl, title) == {t \in tbl : t.canonical_title = title}

\* the INSERT of a flushed JobTitle; canonical_title is unique
jt_insert(acc, jt) ==
  IF \E t \in acc.tbl : t.canonical_title = jt.canonical_title
  THEN [acc EXCEPT !.err = "IntegrityError"]
  ELSE [acc EXCEPT !.tbl = acc.tbl \cup {[jt EXCEPT !.id = next_id(acc.tbl)]}]

\* the loop body without the lookup, on a table without the unique index
seed_jt_row_unchecked(acc, row) ==
  LET e1 == index_strip_error(row, "canonical_title") IN
  IF e1 # "" THEN [acc EXCEPT !.err = e1]
  ELSE LET canonical_title == strip(Val(row["canonical_title"])) IN
    IF canonical_title = <<>> THEN acc
    ELSE IF index_strip_error(row, "category") # "" THEN [acc EXCEPT !.err = "AttributeError"]
    ELSE [acc EXCEPT !.tbl = acc.tbl \cup {[id |-> next_id(acc.tbl),
                                            canonical_title |-> canonical_title,
                                            category |-> strip(Val(row["category"])),
                                            seniority_level |-> strip(Val(row["seniority_level"])),
                                            aliases |-> strip_or_none(get(row, "aliases"))]},
                     !.count = acc.count + 1]

seed_jt_row(acc, row) ==
  LET e1 == index_strip_error(row, "canonical_title") IN
  IF e1 # "" THEN [acc EXCEPT !.err = e1]
  ELSE LET canonical_title == strip(Val(row["canonical_title"])) IN
    IF canonical_title = <<>> THEN acc
    ELSE IF jt_existing(acc.tbl, canonical_title) # {} THEN acc
    ELSE LET e2 == index_strip_error(row, "category")
             e3 == index_strip_error(row, "seniority_level")
         IN IF e2 # "" THEN [acc EXCEPT !.err = e2]
            ELSE IF e3 # "" THEN [acc EXCEPT !.err = e3]
            ELSE LET jt == [id |-> 0,
                            canonical_title |-> canonical_title,
                            category |-> strip(Val(row["category"])),
                            seniority_level |-> strip(Val(row["seniority_level"])),
                            aliases |-> strip_or_none(get(row, "aliases"))]
                     added == jt_insert(acc, jt)
                 IN IF added.err # "" THEN added ELSE [added EXCEPT !.count = acc.count + 1]

RECURSIVE seed_jt_loop(_, _, _)
seed_jt_loop(rows, i, acc) ==
  IF i > Len(rows) \/ acc.err # "" THEN acc
  ELSE seed_jt_loop(rows, i + 1, seed_jt_row(acc, rows[i]))

seed_job_titles(file) ==
  LET r == seed_jt_loop(file.rows, 1, [tbl |-> job_titles, count |-> 0, err |-> ""]) IN
  /\ job_titles' = seed_commit(file, job_titles, r)
  /\ last' = seed_record("seed_job_titles", file, job_titles, r)
  /\ UNCHANGED <<engine, experience_bands, salary_bands, session>>

(***************************************************************************)
(* Configuration: DATABASE_URL is read once, before the tables are used    *)
(***************************************************************************)
set_database_url(e) ==
  /\ last.op = "init"
  /\ engine' = e
  /\ last' = [op |-> "set_database_url"]
  /\ UNCHANGED <<job_titles, experience_bands, salary_bands, session>>

(***************************************************************************)
(* The list views                                                          *)
(***************************************************************************)
\* ORDER BY category, canonical_title
jt_order(a, b) ==
  \/ text_less(a.category, b.category)
  \/ a.category = b.category /\ text_leq(a.canonical_title, b.canonical_title)

RECURSIVE jt_sorted(_)
jt_sorted(S) ==
  IF S = {} THEN <<>>
  ELSE LET m == CHOOSE m \in S : \A o \in S : jt_order(m, o) IN <<m>> \o jt_sorted(S \ {m})

\* the rows the filter of job_titles_list keeps
jt_filter(tbl, search) ==
  IF search # <<>> THEN {t \in tbl : ilike(t.canonical_title, <<"%">> \o search \o <<"%">>)} ELSE tbl

job_titles_list(via, q) ==
  LET search == strip(IF q = None THEN <<>> ELSE Val(q)) IN
  /\ last' = [op |-> "job_titles_list", via |-> via, q |-> q, outcome |-> "ok",
              result |-> jt_sorted(jt_filter(job_titles, search))]
  /\ UNCHANGED <<engine, job_titles, experience_bands, salary_bands, session>>

\* SalaryBand JOIN JobTitle JOIN ExperienceBand: the rows whose references exist
sb_joined(sbs, jts, ebs) ==
  {b \in sbs : (\E t \in jts : t.id = b.job_title_id) /\ (\E e \in ebs : e.code = b.experience_band_code)}

title_of(jts, b) == (CHOOSE t \in jts : t.id = b.job_title_id).canonical_title

\* ORDER BY job_titles.canonical_title, salary_bands.experience_band_code
sb_order(jts, a, b) ==
  \/ text_less(title_of(jts, a), title_of(jts, b))
  \/ /\ title_of(jts, a) = title_of(jts, b)
     /\ text_leq(a.experience_band_code, b.experience_band_code)

\* the sequences that hold each row of S once
orderings(S) == {f \in [1..Cardinality(S) -> S] : \A i, j \in DOMAIN f : i # j => f[i] # f[j]}

\* the filters without the one on job_title_id
sb_filter_any_title(rows, job_title_id, experience_code) ==
  {b \in rows : falsy(experience_code) \/ b.experience_band_code = Val(experience_code)}

\* the rows the filters of salary_bands_list keep
sb_filter(rows, job_title_id, experience_code) ==
  {b \in rows :
     /\ falsy(job_title_id) \/ Some(b.job_title_id) = py_int(Val(job_title_id))
     /\ falsy(experience_code) \/ b.experience_band_code = Val(experience_code)}

salary_bands_list(via, job_title_id, experience_code) ==
  /\ IF ~falsy(job_title_id) /\ py_int(Val(job_title_id)) = None
     THEN last' = [op |-> "salary_bands_list", via |-> via, job_title_id |-> job_title_id,
                   experience_band_code |-> experience_code, outcome |-> "ValueError",
                   result |-> <<>>]
     ELSE \E res \in orderings(sb_filter(sb_joined(salary_bands, job_titles, experience_bands),
                                         job_title_id, experience_code)) :
            /\ \A i \in 1..(Len(res) - 1) : sb_order(job_titles, res[i], res[i + 1])
            /\ last' = [op |-> "salary_bands_list", via |-> via, job_title_id |-> job_title_id,
                        experience_band_code |-> experience_code, outcome |-> "ok",
                        result |-> res]
  /\ UNCHANGED <<engine, job_titles, experience_bands, salary_bands, session>>

(***************************************************************************)
(* Create salary band                                                      *)
(***************************************************************************)
RequiredMsg == "Job title and experience band are required."
CreatedMsg == "Salary band created."

\* request.form.get(k)
form_get(form, k) == IF k \in DOMAIN form THEN Some(form[k]) ELSE None
\* request.form.get(k) or default
form_or(form, k, default) == IF falsy(form_get(form, k)) THEN default ELSE form[k]

\* make_decimal with 0 for an unparsable value
make_decimal_zero(value) ==
  IF falsy(value) THEN None
  ELSE IF py_float(Val(value)) = None THEN Some(0) ELSE py_float(Val(value))

\* make_decimal: None for a blank or unparsable value
make_decimal(value) == IF falsy(value) THEN None ELSE py_float(Val(value))

\* the error the constructor call raises, "" when there is none
sb_value_error(form) ==
  IF py_int(form["job_title_id"]) = None THEN "ValueError"
  ELSE IF ~falsy(form_get(form, "sample_size")) /\ py_int(form["sample_size"]) = None THEN "ValueError"
  ELSE ""

\* the SalaryBand the view constructs from a form that passed the checks
sb_build(form, id) ==
  [id |-> id,
   job_title_id |-> Val(py_int(form["job_title_id"])),
   experience_band_code |-> form["experience_band_code"],
   location |-> form_or(form, "location", <<"M", "a", "l", "t", "a">>),
   industry |-> or_none(form_get(form, "industry")),
   company_size_band |-> or_none(form_get(form, "company_size_band")),
   currency |-> form_or(form, "currency", <<"E", "U", "R">>),
   salary_min |-> make_decimal(or_none(form_get(form, "salary_min"))),
   salary_max |-> make_decimal(or_none(form_get(form, "salary_max"))),
   salary_avg |-> make_decimal(or_none(form_get(form, "salary_avg"))),
   sample_size |-> IF falsy(form_get(form, "sample_size")) THEN None ELSE py_int(form["sample_size"]),
   source_type |-> or_none(form_get(form, "source_type")),
   confidence_level |-> or_none(form_get(form, "confidence_level")),
   notes |-> or_none(form_get(form, "notes")),
   last_updated |-> "today"]

\* the foreign keys of a salary band, as the engine checks them at commit
sb_fk_error(e, b, jts, ebs) ==
  IF foreign_keys_enforced(e)
     /\ ~((\E t \in jts : t.id = b.job_title_id) /\ (\E x \in ebs : x.code = b.experience_band_code))
  THEN "IntegrityError" ELSE ""

\* the check with `is None` for `not`: an empty field passes
sb_required_is_none(form) ==
  form_get(form, "job_title_id") = None \/ form_get(form, "experience_band_code") = None

\* the check of the two required fields
sb_required_missing(form) ==
  falsy(form_get(form, "job_title_id")) \/ falsy(form_get(form, "experience_band_code"))

\* the outcome of a POST and the table it leaves
sb_post(form, e, sbs, jts, ebs) ==
  IF sb_required_missing(form)
  THEN [outcome |-> "invalid", flash |-> RequiredMsg, tbl |-> sbs]
  ELSE IF sb_value_error(form) # ""
  THEN [outcome |-> sb_value_error(form), flash |-> "", tbl |-> sbs]
  ELSE LET b == sb_build(form, next_id(sbs)) IN
       IF sb_fk_error(e, b, jts, ebs) # ""
       THEN [outcome |-> sb_fk_error(e, b, jts, ebs), flash |-> "", tbl |-> sbs]
       ELSE [outcome |-> "created", flash |-> CreatedMsg, tbl |-> sbs \cup {b}]

salary_band_new(via, method, form) ==
  LET r == IF method = "POST"
           THEN sb_post(form, engine, salary_bands, job_titles, experience_bands)
           ELSE [outcome |-> "form", flash |-> "", tbl |-> salary_bands]
  IN /\ Cardinality(r.tbl) <= MaxBands
     /\ salary_bands' = r.tbl
     /\ last' = [op |-> "salary_band_new", via |-> via, method |-> method, form |-> form,
                 before |-> salary_bands, outcome |-> r.outcome, flash |-> r.flash]
     /\ UNCHANGED <<engine, job_titles, experience_bands, session>>

(***************************************************************************)
(* Login, logout and the gate                                              *)
(***************************************************************************)
\* the configured pair (ADMIN_USERNAME, ADMIN_PASSWORD)
AdminUsername == <<"a">>
AdminPassword == <<"b">>

\* the names the module binds by import (lines 1-15)
ImportedNames == {"os", "datetime", "csv", "Path", "Flask", "render_template", "request",
                  "redirect", "url_for", "flash", "SQLAlchemy"}
\* looking up a global name the module never binds raises NameError
name_error(n) == IF n \in ImportedNames THEN "" ELSE "NameError"

\* login_required(view_func): its body evaluates wraps when the decorator is
\* applied, that is while the module is loaded
login_required_error == name_error("wraps")

\* the module body fails at its first @login_required (index)
module_error == login_required_error

GatedRoutes == {"index", "job_titles_list", "salary_bands_list", "salary_band_new"}
Routes == GatedRoutes \cup {"login", "logout"}

index(via) ==
  /\ last' = [op |-> "index", via |-> via, outcome |-> "ok"]
  /\ UNCHANGED <<engine, job_titles, experience_bands, salary_bands, session>>

login(method, username, password) ==
  /\ IF method = "POST"
     THEN IF strip(or_empty(username)) = AdminUsername /\ strip(or_empty(password)) = AdminPassword
          THEN IF name_error("session") # ""
               THEN /\ last' = [op |-> "login", via |-> "http", outcome |-> name_error("session")]
                    /\ UNCHANGED session
               ELSE /\ session' = [user |-> Some(strip(or_empty(username)))]
                    /\ last' = [op |-> "login", via |-> "http", outcome |-> "logged_in"]
          ELSE /\ last' = [op |-> "login", via |-> "http", outcome |-> "invalid"]
               /\ UNCHANGED session
     ELSE /\ last' = [op |-> "login", via |-> "http", outcome |-> "form"]
          /\ UNCHANGED session
  /\ UNCHANGED <<engine, job_titles, experience_bands, salary_bands>>

logout ==
  /\ IF name_error("session") # ""
     THEN /\ last' = [op |-> "logout", via |-> "http", outcome |-> name_error("session")]
          /\ UNCHANGED session
     ELSE /\ session' = [user |-> None]
          /\ last' = [op |-> "logout", via |-> "http", outcome |-> "redirect_login"]
  /\ UNCHANGED <<engine, job_titles, experience_bands, salary_bands>>

\* a request that ends without reaching a view
request_ends(route, outcome) ==
  /\ last' = [op |-> "request", via |-> "http", route |-> route, user |-> session.user,
              outcome |-> outcome]
  /\ UNCHANGED <<engine, job_titles, experience_bands, salary_bands, session>>

\* wrapped_view: the view runs only with the session flag set
gate(route, view) ==
  IF name_error("session") # "" THEN request_ends(route, name_error("session"))
  ELSE IF falsy(session.user) THEN request_ends(route, "redirect_login")
  ELSE view

Methods == {"GET", "POST"}
Credentials == {None, Some(<<" ", "a">>), Some(<<"b">>)}
Searches == {None, Some(<<" ">>), Some(<<"a">>), Some(<<" ", "B">>), Some(<<"_">>), Some(<<"%">>)}
JobTitleIdArgs == {None, Some(<<>>), Some(<<"1">>), Some(<<" ", "2">>), Some(<<"x">>)}
ExperienceCodeArgs == {None, Some(<<"a">>), Some(<<"b">>)}
Forms == {
  [job_title_id |-> <<"1">>, experience_band_code |-> <<"a">>, salary_min |-> <<"a", "b">>,
   salary_max |-> <<"1", "2", ".", "5">>, sample_size |-> <<"2">>],
  [job_title_id |-> <<" ", "2">>, experience_band_code |-> <<"a">>, salary_max |-> <<"x">>,
   salary_avg |-> <<"-">>, location |-> <<"x">>, currency |-> <<"y">>, sample_size |-> <<>>],
  [job_title_id |-> <<"1">>, experience_band_code |-> <<"a">>, salary_min |-> <<"a", "b">>,
   sample_size |-> <<"x">>],
  [experience_band_code |-> <<"a">>, salary_min |-> <<"1">>],
  [job_title_id |-> <<>>, experience_band_code |-> <<"a">>],
  [job_title_id |-> <<"1">>, notes |-> <<"x">>],
  [job_title_id |-> <<"1">>, experience_band_code |-> <<>>, sample_size |-> <<"x">>],
  [job_title_id |-> <<"x">>, experience_band_code |-> <<"a">>],
  [job_title_id |-> <<"1">>, experience_band_code |-> <<"b">>, salary_avg |-> <<"7">>],
  [job_title_id |-> <<"9">>, experience_band_code |-> <<" ", "a">>] }

\* a request, dispatched through the route's decorators
request(route) ==
  IF module_error # "" THEN request_ends(route, module_error)
  ELSE CASE route = "index" -> gate(route, index("http"))
         [] route = "job_titles_list" -> \E q \in Searches : gate(route, job_titles_list("http", q))
         [] route = "salary_bands_list" ->
              \E j \in JobTitleIdArgs, c \in ExperienceCodeArgs :
                gate(route, salary_bands_list("http", j, c))
         [] route = "salary_band_new" ->
              \E m \in Methods, f \in Forms : gate(route, salary_band_new("http", m, f))
         [] route = "login" -> \E m \in Methods, u, p \in Credentials : login(m, u, p)
         [] route = "logout" -> logout

NextSeed ==
  \/ \E file \in EBFiles : seed_experience_bands(file)
  \/ \E file \in JTFiles : seed_job_titles(file)

\* the seeding commands alone, over every source of at most MaxRows rows
SpecSeed == Init /\ [][NextSeed]_vars


Next ==
  \/ \E e \in Engines : set_database_url(e)
  \/ \E file \in {NoFile, EBSample} : seed_experience_bands(file)
  \/ \E file \in {NoFile, JTSample} : seed_job_titles(file)
  \/ \E q \in Searches : job_titles_list("call", q)
  \/ \E j \in JobTitleIdArgs, c \in ExperienceCodeArgs : salary_bands_list("call", j, c)
  \/ \E f \in Forms : salary_band_new("call", "POST", f)
  \/ salary_band_new("call", "GET", <<>>)
  \/ index("call")
  \/ \E m \in Methods, u, p \in Credentials : login(m, u, p)
  \/ logout
  \/ \E route \in Routes : request(route)

\* the whole program, seeded from EBSample and JTSample
Spec == Init /\ [][Next]_vars


(***************************************************************************)
(* Claims                                                                  *)
(***************************************************************************)
SeedOps == {"seed_experience_bands", "seed_job_titles"}
\* the table and the natural-key field of a seeding command
seeded_table(op) == IF op = "seed_experience_bands" THEN experience_bands ELSE job_titles
key_field(op) == IF op = "seed_experience_bands" THEN "experience_band_code" ELSE "canonical_title"
\* absent, empty or only whitespace
blank_text(o) == o = None \/ \A i \in 1..Len(Val(o)) : Val(o)[i] = " "
is_post == last.op = "salary_band_new" /\ last.method = "POST"

\* C1: every stored SalaryBand references an existing JobTitle id and an
\* existing ExperienceBand code (so a create that names no existing row adds
\* nothing).
C1_ReferencesExist ==
  \A b \in salary_bands :
    /\ \E t \in job_titles : t.id = b.job_title_id
    /\ \E e \in experience_bands : e.code = b.experience_band_code

\* C2: a seeding run over the source of the run before it, of the same
\* command, inserts nothing, reports a count of 0 and leaves the table as it was.
C2_SecondRunReportsZero ==
  (last.op \in SeedOps /\ last.rerun /\ last.file.exists) =>
    /\ last.report = Some(0)
    /\ seeded_table(last.op) = last.before

\* C3: a create whose job_title_id or experience_band_code is missing or empty
\* fails with the required-fields reason and leaves the three tables as they
\* were, whatever the other fields hold.
C3_MissingRequiredRejected ==
  [][(/\ last'.op = "salary_band_new" /\ last'.method = "POST"
      /\ \/ "job_title_id" \notin DOMAIN last'.form
         \/ "experience_band_code" \notin DOMAIN last'.form
         \/ last'.form["job_title_id"] = <<>>
         \/ last'.form["experience_band_code"] = <<>>)
     => (/\ last'.outcome = "invalid"
         /\ last'.flash = RequiredMsg
         /\ salary_bands' = salary_bands
         /\ job_titles' = job_titles
         /\ experience_bands' = experience_bands)]_vars

C3_Witness ==
  /\ is_post /\ last.outcome = "invalid"
  /\ "experience_band_code" \in DOMAIN last.form /\ last.form["experience_band_code"] = <<>>
  /\ "sample_size" \in DOMAIN last.form /\ py_int(last.form["sample_size"]) = None
  /\ salary_bands # {}

\* C4: a seeding run skips every row whose natural key is blank (absent, empty
\* or only whitespace): it ends as the run over the source without those rows
\* ends, with the same count and the same table, and raises nothing for them.
C4_BlankKeyRowsSkipped ==
  (last.op \in SeedOps /\ last.file.exists) =>
    LET keyed(row) == ~blank_text(get(row, key_field(last.op)))
        rows == SelectSeq(last.file.rows, keyed)
        start == [tbl |-> last.before, count |-> 0, err |-> ""]
        r == IF last.op = "seed_experience_bands"
             THEN seed_eb_loop(rows, 1, start) ELSE seed_jt_loop(rows, 1, start)
    IN /\ last.outcome = (IF r.err = "" THEN "ok" ELSE r.err)
       /\ last.count = r.count
       /\ seeded_table(last.op) = (IF r.err = "" THEN r.tbl ELSE last.before)

\* t occurs in s
contains(s, t) == \E i \in 0..(Len(s) - Len(t)) : SubSeq(s, i + 1, i + Len(t)) = t

\* C5: the job-title list holds all rows for an empty search text, and for a
\* non-empty one exactly the rows whose canonical_title contains it as a literal
\* substring, case-insensitively; it is ordered by (category, canonical_title).
C5_ListIsLiteralSubstringMatch ==
  last.op = "job_titles_list" =>
    LET text == IF last.q = None THEN <<>> ELSE Val(last.q)
        rows == {last.result[i] : i \in 1..Len(last.result)}
    IN /\ Len(last.result) = Cardinality(rows)
       /\ rows = IF text = <<>> THEN job_titles
                 ELSE {t \in job_titles : contains(lower(t.canonical_title), lower(text))}
       /\ \A i \in 1..(Len(last.result) - 1) :
            LET a == last.result[i]
                b == last.result[i + 1]
            IN \/ text_less(a.category, b.category)
               \/ a.category = b.category /\ text_less(a.canonical_title, b.canonical_title)

\* the references of a form exist
valid_references(form) ==
  /\ "job_title_id" \in DOMAIN form /\ "experience_band_code" \in DOMAIN form
  /\ \E t \in job_titles : py_int(form["job_title_id"]) = Some(t.id)
  /\ \E e \in experience_bands : e.code = form["experience_band_code"]
SalaryFields == {"salary_min", "salary_max", "salary_avg"}
\* a salary text that is given and is no number
unparsable(form, k) == k \in DOMAIN form /\ form[k] # <<>> /\ py_float(form[k]) = None
\* the create stored one row: the unparsable salaries as null, the references as given
stored_leniently(form) ==
  /\ last.outcome = "created"
  /\ last.before \subseteq salary_bands
  /\ Cardinality(salary_bands \ last.before) = 1
  /\ \A b \in salary_bands \ last.before :
       /\ \A k \in SalaryFields : unparsable(form, k) => b[k] = None
       /\ Some(b.job_title_id) = py_int(form["job_title_id"])
       /\ b.experience_band_code = form["experience_band_code"]

\* C6, as stated: a create with valid references and an unparsable salary text
\* succeeds, adds exactly one row, stores that salary as null and the references
\* as given.
C6_LenientSalary ==
  (is_post /\ valid_references(last.form) /\ \E k \in SalaryFields : unparsable(last.form, k))
    => stored_leniently(last.form)

\* C6, amended: the same, for a create whose sample_size is blank or an integer.
C6_LenientSalaryGivenSampleSize ==
  (/\ is_post /\ valid_references(last.form)
   /\ \E k \in SalaryFields : unparsable(last.form, k)
   /\ \/ "sample_size" \notin DOMAIN last.form
      \/ last.form["sample_size"] = <<>>
      \/ py_int(last.form["sample_size"]) # None)
    => stored_leniently(last.form)

C6_Witness ==
  /\ is_post /\ valid_references(last.form) /\ last.outcome = "created"
  /\ unparsable(last.form, "salary_min")
  /\ \E b \in salary_bands \ last.before : b.salary_min = None /\ b.salary_max # None

\* C7: no two JobTitle rows share a canonical_title and no two ExperienceBand
\* rows share a code.
C7_NaturalKeysUnique ==
  /\ \A t, u \in job_titles : t.canonical_title = u.canonical_title => t = u
  /\ \A e, f \in experience_bands : e.code = f.code => e = f

\* a source that repeats a natural key was seeded
C7_Witness ==
  /\ last.op = "seed_job_titles" /\ last.outcome = "ok" /\ last.report = Some(1)
  /\ Len(last.file.rows) = 2
  /\ \A i \in 1..2 : ~blank_text(get(last.file.rows[i], "canonical_title"))
  /\ Cardinality(job_titles) = 1

\* C8: a request to a gated route is served only with the session flag set;
\* without it the request is redirected to login.
C8_GateRedirectsOrServes ==
  /\ (last.op = "request" /\ last.route \in GatedRoutes) =>
       (falsy(last.user) /\ last.outcome = "redirect_login")
  /\ (last.op \in GatedRoutes /\ last.via = "http") => ~falsy(session.user)

\* C9: the salary-band list filtered by job_title_id = X holds only rows of
\* JobTitle X (and of experience band Y when that is given as well), every such
\* row whose references exist, ordered by (canonical_title,
\* experience_band_code); the listing changes no table.
C9_FilteredListing ==
  [][(last'.op = "salary_bands_list" /\ last'.outcome = "ok" /\ ~falsy(last'.job_title_id))
     => LET res == last'.result
            X == py_int(Val(last'.job_title_id))
            Y == last'.experience_band_code
            title(b) == (CHOOSE t \in job_titles : t.id = b.job_title_id).canonical_title
        IN /\ {res[i] : i \in 1..Len(res)} =
                {b \in salary_bands :
                   /\ Some(b.job_title_id) = X
                   /\ \E t \in job_titles : t.id = b.job_title_id
                   /\ \E e \in experience_bands : e.code = b.experience_band_code
                   /\ (Y = None \/ Y = Some(<<>>) \/ Some(b.experience_band_code) = Y)}
           /\ Len(res) = Cardinality({res[i] : i \in 1..Len(res)})
           /\ \A i \in 1..(Len(res) - 1) :
                \/ text_less(title(res[i]), title(res[i + 1]))
                \/ /\ title(res[i]) = title(res[i + 1])
                   /\ text_leq(res[i].experience_band_code, res[i + 1].experience_band_code)
           /\ UNCHANGED <<job_titles, experience_bands, salary_bands>>]_vars

C9_Witness ==
  /\ last.op = "salary_bands_list" /\ last.outcome = "ok" /\ ~falsy(last.job_title_id)
  /\ Len(last.result) >= 1
  /\ \E b \in sb_joined(salary_bands, job_titles, experience_bands) :
       Some(b.job_title_id) # py_int(Val(last.job_title_id))

\* C10: a seeding run that completes leaves in the table every record it
\* constructed and reports their number; a run that stops early (no source
\* file, or an error on a row) leaves the table as it was and reports nothing.
C10_CommitOnceAtEnd ==
  last.op \in SeedOps =>
    IF last.outcome = "ok"
    THEN /\ last.before \subseteq seeded_table(last.op)
         /\ last.report = Some(Cardinality(seeded_table(last.op) \ last.before))
         /\ last.report = Some(last.count)
    ELSE /\ seeded_table(last.op) = last.before
         /\ last.report = None

\* a run stopped by an error after it had added a record
C10_Witness ==
  /\ last.op = "seed_job_titles" /\ last.outcome = "AttributeError"
  /\ last.count >= 1
  /\ job_titles = last.before

====
